---- MODULE Spec2Model ----
(***************************************************************************)
(* AirVision frame annotation engine: the three annotators of             *)
(* src/handler (Tracker, Predictor, HeatmapGenerator) and the per-frame   *)
(* body of the driver loop of src/gui.py that feeds them.                  *)
(*                                                                         *)
(* Track coordinates are whole pixels (draw_history stores float(x)       *)
(* unchanged).  Heatmap detection coordinates are in half pixels, so that  *)
(* the truncation int(x) of src/handler/heatmap.py:33 is a real conversion.*)
(***************************************************************************)
EXTENDS Integers, Sequences, FiniteSets, TLC

VARIABLES
    mode,       \* args.mode: "tracking" | "predict" | "heatmap"
    cfg,        \* constructor keywords: lines_history, hide_labels, radius
    pc,         \* driver position: "loop" | "done" (run ended)
    frames,     \* number of annotator calls made so far
    results,    \* detector/tracker results handed to the last call
    fault,      \* where the last call failed: "none" | "detector" | "render"
    frame,      \* shape <<h, w>> of the frame handed to the last call
    prev_frame, \* history variable: shape of the frame before that one
    lastOp,     \* the operation that made the last step
    outcome,    \* how it ended: "ok" | "degraded" | "raised"
    ret,        \* the pair it returned: [frame, count]
    history,    \* Tracker.history: track id -> deque of points
    counter,    \* HandlerBase.counter: the unique-ID set
    seen,       \* history variable: ids reported to annotate_frame so far
    drawn,      \* history variable: ids handed to draw_history so far
    evicted,    \* history variable: the <<id, point>> that the last
                \* draw_history pushed out of a full history
    heatmap,    \* HeatmapGenerator.heatmap
    coverage,   \* HeatmapGenerator.coverage, as a fraction <<num, den>>
    stats       \* last stats_ready event: [current, total_unique, coverage]

\* the worker thread of src/gui.py (DetectionThread) and its callers
VARIABLES
    run,        \* number of the DetectionThread started last, 0 for none
    args,       \* its argparse.Namespace: [mode, save]
    wpc,        \* position of the worker in DetectionThread.run
    paused,     \* self._paused
    stopped,    \* self._stopped
    idx,        \* idx: frames fully processed in this run
    cur,        \* the frame decoded last: [n, shape], n = 0 for none
    cap,        \* the capture: [state, shape]
    writer,     \* the video writer: [made, size, frames, released]
    emitted,    \* signals emitted in this run, counted by kind
    insts,      \* annotator instances constructed so far: [id, kind, run]
    detector,   \* id of the instance the run's loop uses, 0 for none
    calls,      \* history variable: ids of the instances whose
                \* annotate_frame this run has called
    inflight,   \* annotate_frame calls entered and not yet left
    late,       \* history variable: frames decoded after stop() returned
    raised,     \* history variable: the step of this run that raised
    ended,      \* history variable: why the loop of this run was left
    woke,       \* history variable: the call whose wakeAll ended the wait
                \* of the current iteration: "none", "resume" or "stop"
    gui         \* the window of src/gui.py (GUI): its three buttons
                \* [start_btn, pause_btn, stop_btn, pause_text], whether
                \* _on_finish has handled the finished event of the thread
                \* (handled), and two history fields: overlap (a thread was
                \* started while the one before had not emitted finished)
                \* and sent (the position of the worker at the last call
                \* of pause, resume or stop on the thread started last)

\* smooth_path applied to one input
VARIABLES
    sp          \* [pc, points, k, out]

driverVars == <<run, args, wpc, paused, stopped, idx, cur, cap, writer,
                emitted, insts, detector, calls, inflight, late, raised,
                ended, woke, gui>>

\* id_to_color and the generator of the random module it uses
VARIABLES
    rng,        \* the module-level generator: [seed, pos]
    log         \* history variable: the calls of id_to_color, [idx, out]

\* the fps value of DetectionThread.run
VARIABLES
    fps         \* [value, n, dt]: the local fps, the number of frames it was
                \* updated for, and the last wall-clock delta

\* the rendering of one track by draw_history
VARIABLES
    trail       \* [pc, pts, smooth, segs]

pureVars == <<sp, rng, log, fps, trail>>

annotatorVars ==
    <<mode, cfg, pc, frames, results, fault, frame, prev_frame, lastOp,
      outcome, ret, history, counter, seen, drawn, evicted, heatmap, coverage,
      stats>>

vars == <<annotatorVars, driverVars, pureVars>>

-----------------------------------------------------------------------------
(* Bounds *)

MaxFrames == 5
MaxHeatFrames == 2
MaxDet == 2

IDs == {7, 9}
Points == {<<5, 5>>, <<10, 10>>}

-----------------------------------------------------------------------------
(* Results of the external detector / tracker *)

\* results[0].boxes: id is None (hasIds = FALSE) or a list parallel to xywh
NoIds == [hasIds |-> FALSE, ids |-> <<>>, xywh |-> <<>>]

RECURSIVE SetToSeq(_)
SetToSeq(S) ==
    IF S = {} THEN <<>>
    ELSE LET m == CHOOSE x \in S : \A y \in S : x <= y
         IN <<m>> \o SetToSeq(S \ {m})

\* the tracker gives every object of a frame its own id
TrackResults ==
    { LET ids == SetToSeq(S)
      IN [hasIds |-> TRUE, ids |-> ids,
          xywh |-> [i \in 1..Len(ids) |-> f[ids[i]]]]
      : <<S, f>> \in UNION { {<<S, f>> : f \in [S -> Points]} : S \in SUBSET IDs } }

Range(s) == { s[i] : i \in 1..Len(s) }

-----------------------------------------------------------------------------
(* Tracker *)

default_len == 150

\* configured lines_history; 0 stands for unset or 0
LinesHistories == {0, 1, 2}

\* deque(maxlen=self.lines_history or default_len)
MaxLen(lines_history) ==
    IF lines_history # 0 THEN lines_history ELSE default_len

\* deque.append on a bounded deque: a full deque drops its oldest element
DequeAppendUnbounded(d, p, maxlen) == Append(d, p)

DequeAppendDropNewest(d, p, maxlen) ==
    IF Len(d) < maxlen THEN Append(d, p)
    ELSE Append(SubSeq(d, 1, Len(d) - 1), p)

DequeAppend(d, p, maxlen) ==
    IF Len(d) < maxlen THEN Append(d, p) ELSE Append(Tail(d), p)

\* for (x, y, w, h), tid in zip(boxes, ids): self.history[tid].append((cx, cy))
RECURSIVE AppendTracks(_, _, _, _)
AppendTracks(hist, ids, boxes, maxlen) ==
    IF ids = <<>> \/ boxes = <<>> THEN hist
    ELSE LET tid == Head(ids)
             old == IF tid \in DOMAIN hist THEN hist[tid] ELSE <<>>
             new == [t \in DOMAIN hist \cup {tid} |->
                        IF t = tid THEN DequeAppend(old, Head(boxes), maxlen)
                        ELSE hist[t]]
         IN AppendTracks(new, Tail(ids), Tail(boxes), maxlen)

\* for tid in list(self.history): if tid not in active and len < 2: pop
PruneAbsent(hist, active) ==
    [t \in {u \in DOMAIN hist : u \in active} |-> hist[t]]

PruneAll(hist, active) ==
    [t \in {u \in DOMAIN hist : Len(hist[u]) >= 2} |-> hist[t]]

Prune(hist, active) ==
    [t \in {u \in DOMAIN hist : ~(u \notin active /\ Len(hist[u]) < 2)} |-> hist[t]]

\* the oldest points of the full deques that the appends of a frame replace
Evicted(hist, res, maxlen) ==
    { <<tid, Head(hist[tid])>>
      : tid \in { t \in Range(res.ids) \cap DOMAIN hist : Len(hist[t]) = maxlen } }

\* the state part of Tracker.draw_history (the drawing that follows reads
\* copies of the deques and leaves them as they are)
UpdateHistory(hist, res, lines_history) ==
    Prune(AppendTracks(hist, res.ids, res.xywh, MaxLen(lines_history)),
          Range(res.ids))

\* HandlerBase.counter as constructed: the unique-ID set starts empty
EmptyCounter == {}

\* self.counter.update(ids)
CounterReplace(cnt, ids) == Range(ids)

CounterUpdate(cnt, ids) == cnt \cup Range(ids)


\* Tracker.annotate_frame after self.model.track(...) returned: the try
\* block.  fail = "render" is custom_box / results[0].plot() raising.
\* Neither rendering touches the histories: results[0].plot() is the
\* tracker library's, and HandlerBase.custom_box is taken to draw boxes only.
TrackerTry(cnt, res, fail, hide_labels) ==
    IF ~res.hasIds
    THEN [outcome |-> "degraded", counter |-> cnt,
          ret |-> [frame |-> "input", count |-> 0]]
    ELSE IF fail = "render"
    THEN [outcome |-> "degraded", counter |-> CounterUpdate(cnt, res.ids),
          ret |-> [frame |-> "input", count |-> 0]]
    ELSE [outcome |-> "ok", counter |-> CounterUpdate(cnt, res.ids),
          ret |-> [frame |-> IF hide_labels THEN "custom_box" ELSE "plot",
                   count |-> Len(res.ids)]]

NoRet == [frame |-> "none", count |-> 0]

\* Tracker.annotate_frame: self.model.track(...) is called outside the try
TrackerAnnotateSwallow(cnt, res, fail, hide_labels) ==
    IF fail = "detector"
    THEN [outcome |-> "degraded", counter |-> cnt,
          ret |-> [frame |-> "input", count |-> 0]]
    ELSE TrackerTry(cnt, res, fail, hide_labels)

TrackerAnnotate(cnt, res, fail, hide_labels) ==
    IF fail = "detector"
    THEN [outcome |-> "raised", counter |-> cnt, ret |-> NoRet]
    ELSE TrackerTry(cnt, res, fail, hide_labels)

-----------------------------------------------------------------------------
(* Predictor *)

PredictResults ==
    { [hasIds |-> FALSE, ids |-> <<>>, xywh |-> b]
      : b \in UNION { [1..n -> Points] : n \in 0..MaxDet } }

\* Predictor.annotate_frame: no try block at all
PredictorAnnotate(res, fail, hide_labels) ==
    IF fail # "none"
    THEN [outcome |-> "raised", ret |-> NoRet]
    ELSE [outcome |-> "ok",
          ret |-> [frame |-> IF hide_labels THEN "custom_box" ELSE "plot",
                   count |-> Len(res.xywh)]]

-----------------------------------------------------------------------------
(* HeatmapGenerator *)

\* frame.shape[:2] = (h, w)
Sizes == {<<2, 2>>, <<2, 3>>}

\* box centres <<x, y>> in half pixels (-2 is -1.0, -1 is -0.5, 1 is 0.5):
\* two that truncate to pixel (0, 0), one at pixel (2, 1), which lies outside
\* a frame of width 2, one left of every frame and one below every frame
HeatPoints == {<<0, -1>>, <<1, 0>>, <<4, 2>>, <<-2, 0>>, <<0, 4>>}

HeatResults ==
    { [hasIds |-> FALSE, ids |-> <<>>, xywh |-> b]
      : b \in UNION { [1..n -> HeatPoints] : n \in 0..MaxDet } }

\* int(x) of a float: truncation towards zero
ToIntFloor(x2) == IF x2 >= 0 THEN x2 \div 2 ELSE -((1 - x2) \div 2)

ToInt(x2) == IF x2 >= 0 THEN x2 \div 2 ELSE -((-x2) \div 2)

Cells(h, w) == (0..(h - 1)) \X (0..(w - 1))

\* self.heatmap = None
NoHeatmap == [alloc |-> FALSE, h |-> 0, w |-> 0, data |-> <<>>]

\* np.zeros((h, w), dtype=np.float32)
Zeros(h, w) ==
    [alloc |-> TRUE, h |-> h, w |-> w, data |-> [c \in Cells(h, w) |-> 0]]

\* if self.heatmap is None or self.heatmap.shape != (h, w): re-allocate
AllocateKeep(hm, h, w) == IF ~hm.alloc THEN Zeros(h, w) ELSE hm

AllocateAlways(hm, h, w) == Zeros(h, w)

Allocate(hm, h, w) ==
    IF ~hm.alloc \/ <<hm.h, hm.w>> # <<h, w>> THEN Zeros(h, w) ELSE hm

\* cv2.circle(img, center, radius, 1.0, thickness=-1): the offsets <<dy, dx>>
\* of the filled midpoint circle (rows of horizontal spans)
RECURSIVE CircleSpans(_, _, _, _, _)
CircleSpans(dx, dy, err, plus, minus) ==
    IF dx < dy THEN {}
    ELSE LET spans == { <<oy, ox>> : oy \in {-dy, dy}, ox \in (-dx)..dx }
                      \cup { <<oy, ox>> : oy \in {-dx, dx}, ox \in (-dy)..dy }
             err1 == err + plus
             step == err1 > 0
         IN spans \cup
            CircleSpans(IF step THEN dx - 1 ELSE dx, dy + 1,
                        IF step THEN err1 - minus ELSE err1, plus + 2,
                        IF step THEN minus - 2 ELSE minus)

Disk(radius) == CircleSpans(radius, 0, 0, 1, 2 * radius - 1)

\* configured radius
Radii == {1, 2}

DiskOf == [r \in Radii |-> Disk(r)]

\* the cells one cv2.circle call writes (clipped to the array)
DiskCells(h, w, cx, cy, radius) ==
    LET disk == DiskOf[radius]
    IN { c \in Cells(h, w) : <<c[1] - cy, c[2] - cx>> \in disk }

\* one cv2.circle call: every cell of the disk is set to 1.0
CircleAdd(data, h, w, cx, cy, radius) ==
    LET disk == DiskCells(h, w, cx, cy, radius)
    IN [c \in DOMAIN data |-> IF c \in disk THEN data[c] + 1 ELSE data[c]]

Circle(data, h, w, cx, cy, radius) ==
    LET disk == DiskCells(h, w, cx, cy, radius)
    IN [c \in DOMAIN data |-> IF c \in disk THEN 1 ELSE data[c]]

\* for x, y, *_ in boxes: stamp the centres that lie inside the frame
RECURSIVE StampAll(_, _, _, _, _)
StampAll(data, boxes, h, w, radius) ==
    IF boxes = <<>> THEN data
    ELSE LET cx == ToInt(Head(boxes)[1])
             cy == ToInt(Head(boxes)[2])
             next == IF 0 <= cx /\ cx < w /\ 0 <= cy /\ cy < h
                     THEN Circle(data, h, w, cx, cy, radius)
                     ELSE data
         IN StampAll(next, Tail(boxes), h, w, radius)

\* np.count_nonzero(self.heatmap)
CountNonzero(data) == Cardinality({c \in DOMAIN data : data[c] # 0})

\* np.count_nonzero(self.heatmap) / (h * w) * 100, as the fraction num / den
Coverage(data, h, w) == <<CountNonzero(data) * 100, h * w>>

\* self.coverage: float = 0.0
ZeroCoverage == <<0, 1>>

\* HeatmapGenerator.annotate_frame. fail = "detector" is self.model.predict
\* raising (after the grid was allocated), fail = "render" is the
\* visualisation (normalize .. addWeighted) raising.
HeatmapReturn(grid, data, cov, h, w, res, fail) ==
    IF fail = "detector"
    THEN [outcome |-> "raised", heatmap |-> grid, coverage |-> cov,
          ret |-> NoRet]
    ELSE IF fail = "render"
    THEN [outcome |-> "raised", heatmap |-> [grid EXCEPT !.data = data],
          coverage |-> Coverage(data, h, w), ret |-> NoRet]
    ELSE [outcome |-> "ok", heatmap |-> [grid EXCEPT !.data = data],
          coverage |-> Coverage(data, h, w),
          ret |-> [frame |-> "blended", count |-> Len(res.xywh)]]

HeatmapStamp(grid, cov, h, w, res, fail, radius) ==
    HeatmapReturn(grid, StampAll(grid.data, res.xywh, h, w, radius),
                  cov, h, w, res, fail)

HeatmapAnnotate(hm, cov, shape, res, fail, radius) ==
    HeatmapStamp(Allocate(hm, shape[1], shape[2]), cov, shape[1], shape[2],
                 res, fail, radius)

-----------------------------------------------------------------------------
(* smooth_path. A float is the fraction <<num, den>>, den > 0; a point is a
   pair of floats. *)

MaxPath == 4
MaxK == 2

AsFloat(v) == <<v, 1>>

\* the points of a path handed to smooth_path
PathPoints ==
    { <<AsFloat(p[1]), AsFloat(p[2])>> : p \in {<<0, 0>>, <<6, 0>>, <<3, 9>>} }

\* sum(xs), sum(ys): the sum of coordinate c of the points of w
RECURSIVE SumCoord(_, _)
SumCoord(w, c) ==
    IF w = <<>> THEN 0 ELSE Head(w)[c][1] + SumCoord(Tail(w), c)

\* points[lo:hi] for the 0-based index i
Window(points, i, k) ==
    LET lo == IF i - k > 0 THEN i - k ELSE 0
        hi == IF i + k + 1 < Len(points) THEN i + k + 1 ELSE Len(points)
    IN SubSeq(points, lo + 1, hi)

\* (sum(xs) / len(xs), sum(ys) / len(ys))
Mean(w) == << <<SumCoord(w, 1), Len(w)>>, <<SumCoord(w, 2), Len(w)>> >>

\* a window that ends at the point itself
smooth_pathTrailing(points, k) ==
    IF Len(points) < 3 THEN points
    ELSE [n \in 1..Len(points) |->
             Mean(SubSeq(points, IF n - k > 1 THEN n - k ELSE 1, n))]

smooth_pathNoGuard(points, k) ==
    [n \in 1..Len(points) |-> Mean(Window(points, n - 1, k))]

smooth_path(points, k) ==
    IF Len(points) < 3 THEN points
    ELSE [n \in 1..Len(points) |-> Mean(Window(points, n - 1, k))]

-----------------------------------------------------------------------------
(* The run: construction, then one step per call *)

Modes == {"tracking", "predict", "heatmap"}

Fails == {"none", "detector", "render"}

\* the keywords each annotator reads; 0 stands for lines_history unset or 0
Configs(m) ==
    IF m = "tracking"
    THEN [lines_history : LinesHistories, hide_labels : BOOLEAN, radius : {1}]
    ELSE IF m = "predict"
    THEN [lines_history : {0}, hide_labels : BOOLEAN, radius : {1}]
    ELSE [lines_history : {0}, hide_labels : {FALSE}, radius : Radii]

\* float(-1.0), the "not applicable" value of a stats field
NotApplicable == <<-1, 1>>

\* cap, writer = None and the signal counts of a thread that has not run
NoFrame == [n |-> 0, shape |-> <<0, 0>>]

NoCapture == [state |-> "none", shape |-> <<0, 0>>]

NoWriter ==
    [made |-> 0, size |-> <<0, 0>>, frames |-> <<>>, released |-> FALSE]

NoSignals ==
    [frame_ready |-> 0, stats_ready |-> 0, progress |-> 0, info |-> 0,
     error |-> 0, saved |-> 0, processed |-> 0, finished |-> 0]

\* GUI.__init__: Start enabled, Pause and Stop disabled, no thread yet
GuiIdle ==
    [start_btn |-> TRUE, pause_btn |-> FALSE, stop_btn |-> FALSE,
     pause_text |-> "Pause", handled |-> FALSE, overlap |-> FALSE,
     sent |-> "never"]

\* no worker thread exists
DriverOff ==
    /\ run = 0
    /\ args = [mode |-> "none", save |-> FALSE]
    /\ wpc = "none"
    /\ paused = FALSE
    /\ stopped = FALSE
    /\ idx = 0
    /\ cur = NoFrame
    /\ cap = NoCapture
    /\ writer = NoWriter
    /\ emitted = NoSignals
    /\ insts = {}
    /\ detector = 0
    /\ calls = {}
    /\ inflight = 0
    /\ late = 0
    /\ raised = "none"
    /\ ended = "none"
    /\ woke = "none"
    /\ gui = GuiIdle

\* smooth_path is not in use
SmoothOff == sp = [pc |-> "none", points |-> <<>>, k |-> 0, out |-> <<>>]

\* id_to_color has not been called
ColorOff == rng = [seed |-> 0, pos |-> 0] /\ log = <<>>

\* fps = 0.0 (fractions <<num, den>>)
FpsOff == fps = [value |-> <<0, 1>>, n |-> 0, dt |-> <<0, 1>>]

\* no track is being rendered
TrailOff == trail = [pc |-> "none", pts |-> <<>>, smooth |-> FALSE, segs |-> <<>>]

PureOff == SmoothOff /\ ColorOff /\ FpsOff /\ TrailOff

\* an annotator as constructed, before its first frame
AnnotatorFresh ==
    /\ frames = 0
    /\ results = NoIds
    /\ fault = "none"
    /\ frame = <<0, 0>>
    /\ prev_frame = <<0, 0>>
    /\ lastOp = "init"
    /\ outcome = "ok"
    /\ ret = NoRet
    /\ history = <<>>
    /\ counter = EmptyCounter
    /\ seen = {}
    /\ drawn = {}
    /\ evicted = {}
    /\ heatmap = NoHeatmap
    /\ coverage = ZeroCoverage
    /\ stats = [current |-> -1, total_unique |-> -1, coverage |-> NotApplicable]

\* no annotator is being followed
AnnotatorOff ==
    /\ mode = "none"
    /\ cfg = [lines_history |-> 0, hide_labels |-> FALSE, radius |-> 1]
    /\ pc = "none"
    /\ AnnotatorFresh

Init ==
    /\ mode \in Modes
    /\ cfg \in Configs(mode)
    /\ pc = "loop"
    /\ AnnotatorFresh
    /\ DriverOff
    /\ PureOff

\* the stats of a frame: current, total_unique and coverage by mode
StatsHeatmapCount(m, aux, cnt, cov) ==
    IF m = "tracking"
    THEN [current |-> aux, total_unique |-> Cardinality(cnt),
          coverage |-> NotApplicable]
    ELSE IF m = "predict"
    THEN [current |-> aux, total_unique |-> -1, coverage |-> NotApplicable]
    ELSE [current |-> aux, total_unique |-> -1, coverage |-> cov]

Stats(m, aux, cnt, cov) ==
    IF m = "tracking"
    THEN [current |-> aux, total_unique |-> Cardinality(cnt),
          coverage |-> NotApplicable]
    ELSE IF m = "predict"
    THEN [current |-> aux, total_unique |-> -1, coverage |-> NotApplicable]
    ELSE [current |-> -1, total_unique |-> -1, coverage |-> cov]

\* what the driver does with the outcome of annotate_frame: an exception
\* leaves the loop (gui.py:145), a returned pair is reported (gui.py:110-128)
Driver(r, st) ==
    /\ frames' = frames + 1
    /\ lastOp' = "annotate_frame"
    /\ outcome' = r.outcome
    /\ ret' = r.ret
    /\ pc' = IF r.outcome = "raised" THEN "done" ELSE "loop"
    /\ stats' = IF r.outcome = "raised" THEN stats ELSE st

\* one iteration of DetectionThread.run in tracking mode
TrackingFrame ==
    /\ mode = "tracking" /\ pc = "loop" /\ frames < MaxFrames
    /\ \E res \in TrackResults \cup {NoIds}, f \in Fails :
          /\ f = "detector" => res = NoIds
          /\ f = "render" => res.hasIds
          /\ \E r \in {TrackerAnnotate(counter, res, f, cfg.hide_labels)} :
                /\ results' = res
                /\ fault' = f
                /\ counter' = r.counter
                /\ seen' = seen \cup Range(res.ids)
                /\ Driver(r, Stats(mode, r.ret.count, r.counter, coverage))
    /\ UNCHANGED <<mode, cfg, frame, prev_frame, history, drawn, evicted,
                   heatmap, coverage>>
    /\ UNCHANGED <<driverVars, pureVars>>

\* a call of Tracker.draw_history(results, frame); annotate_frame and the
\* loop of DetectionThread.run do not make it, so it is a step of its own
DrawHistory ==
    /\ mode = "tracking" /\ pc = "loop" /\ frames < MaxFrames
    /\ \E res \in TrackResults \cup {NoIds} :
          /\ results' = res
          /\ drawn' = drawn \cup Range(res.ids)
          /\ evicted' = Evicted(history, res, MaxLen(cfg.lines_history))
          /\ IF res.hasIds
             THEN /\ history' = UpdateHistory(history, res, cfg.lines_history)
                  /\ outcome' = "ok"
                  /\ ret' = [frame |-> "trails", count |-> 0]
                  /\ pc' = "loop"
             ELSE \* results[0].boxes.id is None: line 70 raises
                  /\ history' = history
                  /\ outcome' = "raised"
                  /\ ret' = NoRet
                  /\ pc' = "done"
    /\ frames' = frames + 1
    /\ lastOp' = "draw_history"
    /\ fault' = "none"
    /\ UNCHANGED <<mode, cfg, frame, prev_frame, counter, seen, heatmap,
                   coverage, stats>>
    /\ UNCHANGED <<driverVars, pureVars>>

\* one iteration of DetectionThread.run in predict mode
PredictFrame ==
    /\ mode = "predict" /\ pc = "loop" /\ frames < MaxFrames
    /\ \E res \in PredictResults, f \in Fails :
          /\ f = "detector" => res = NoIds
          /\ \E r \in {PredictorAnnotate(res, f, cfg.hide_labels)} :
                /\ results' = res
                /\ fault' = f
                /\ Driver(r, Stats(mode, r.ret.count, counter, coverage))
    /\ UNCHANGED <<mode, cfg, frame, prev_frame, history, counter, seen, drawn,
                   evicted, heatmap, coverage>>
    /\ UNCHANGED <<driverVars, pureVars>>

\* one iteration of DetectionThread.run in heatmap mode
HeatmapFrame ==
    /\ mode = "heatmap" /\ pc = "loop" /\ frames < MaxHeatFrames
    /\ \E shape \in Sizes, res \in HeatResults, f \in Fails :
          /\ f = "detector" => res = NoIds
          /\ \E r \in {HeatmapAnnotate(heatmap, coverage, shape, res, f,
                                        cfg.radius)} :
                /\ results' = res
                /\ fault' = f
                /\ frame' = shape
                /\ prev_frame' = frame
                /\ heatmap' = r.heatmap
                /\ coverage' = r.coverage
                /\ Driver(r, Stats(mode, r.ret.count, counter, r.coverage))
    /\ UNCHANGED <<mode, cfg, history, counter, seen, drawn, evicted>>
    /\ UNCHANGED <<driverVars, pureVars>>

Next == TrackingFrame \/ DrawHistory \/ PredictFrame \/ HeatmapFrame

Spec == Init /\ [][Next]_vars


\* a run in tracking mode: the calls a Tracker receives
InitTracker == Init /\ mode = "tracking"

NextTracker == TrackingFrame \/ DrawHistory

SpecTracker == InitTracker /\ [][NextTracker]_vars

\* a run in heatmap mode
InitHeatmap == Init /\ mode = "heatmap"

NextHeatmap == HeatmapFrame

SpecHeatmap == InitHeatmap /\ [][NextHeatmap]_vars

\* smooth_path(points, k) on one path
InitSmooth ==
    /\ AnnotatorOff
    /\ DriverOff
    /\ ColorOff
    /\ FpsOff
    /\ TrailOff
    /\ \E n \in 0..MaxPath :
          sp \in [pc : {"called"}, points : [1..n -> PathPoints],
                  k : 0..MaxK, out : {<<>>}]

SmoothPath ==
    /\ sp.pc = "called"
    /\ sp' = [sp EXCEPT !.pc = "returned",
                        !.out = smooth_path(sp.points, sp.k)]
    /\ UNCHANGED <<annotatorVars, driverVars, rng, log, fps, trail>>

NextSmooth == SmoothPath

SpecSmooth == InitSmooth /\ [][NextSmooth]_vars

-----------------------------------------------------------------------------
(* The trail of one track, as draw_history renders it *)

\* k: int = 5
default_k == 5

\* for i, (p1, p2) in enumerate(zip(path[:-1], path[1:])): the segments in
\* drawing order, each with alpha = (i + 1) / n as a fraction, n = len(path) - 1
SegmentsOverPoints(path) ==
    [i \in 1..(Len(path) - 1) |->
        [p1 |-> path[i], p2 |-> path[i + 1], alpha |-> <<i, Len(path)>>]]

Segments(path) ==
    [i \in 1..(Len(path) - 1) |->
        [p1 |-> path[i], p2 |-> path[i + 1], alpha |-> <<i, Len(path) - 1>>]]

\* the body of the loop over self.history.items() for one track
DrawTrail(pts, smooth) ==
    IF Len(pts) < 2 THEN <<>>
    ELSE Segments(IF smooth THEN smooth_path(pts, default_k) ELSE pts)

-----------------------------------------------------------------------------
(* id_to_color. The generator of the random module is the pair of the seed
   it was last given and the number of values drawn since; a hue is a
   number of twelfths, a channel a number of ten-thousandths. *)

MaxCalls == 3
MaxDraws == 2

\* track ids handed to id_to_color
ColorIds == {7, 9, 10, 12}

\* the seeds the generator may have when the module is imported
StartSeeds == {0, 1}

\* random.seed(idx)
Seeded(tid) == [seed |-> tid, pos |-> 0]

\* random.random(): the value a generator in state g returns next, a fixed
\* function of the seed and of the number of values drawn since
RandomAt(g) == (5 * g.seed + 7 * g.pos + 3) % 12

Advance(g) == [g EXCEPT !.pos = @ + 1]

\* colorsys.hsv_to_rgb(h, 0.9, 0.95) as (r, g, b)
hsv_to_rgb(h12) ==
    LET i == (h12 \div 2) % 6
        f2 == h12 % 2
        v == 9500
        p == 950
        q == 9500 - 4275 * f2
        t == 950 + 4275 * f2
    IN CASE i = 0 -> <<v, t, p>>
         [] i = 1 -> <<q, v, p>>
         [] i = 2 -> <<p, v, t>>
         [] i = 3 -> <<p, q, v>>
         [] i = 4 -> <<t, p, v>>
         [] i = 5 -> <<v, p, q>>

\* int(c * 255)
Scale255(c) == (c * 255) \div 10000

\* return int(b * 255), int(g * 255), int(r * 255)
ReturnedAsRGB(rgb) == <<Scale255(rgb[1]), Scale255(rgb[2]), Scale255(rgb[3])>>

Returned(rgb) == <<Scale255(rgb[3]), Scale255(rgb[2]), Scale255(rgb[1])>>

\* id_to_color(tid) called when the generator is in state g: the triple it
\* returns and the state it leaves the generator in
id_to_colorUnseeded(g, tid) ==
    [out |-> Returned(hsv_to_rgb(RandomAt(g))), rng |-> Advance(g)]

id_to_color(g, tid) ==
    [out |-> Returned(hsv_to_rgb(RandomAt(Seeded(tid)))),
     rng |-> Advance(Seeded(tid))]

-----------------------------------------------------------------------------
(* The fps value of the driver loop. Times and rates are fractions
   <<num, den>> in lowest terms, den > 0. *)

MaxFpsFrames == 3

\* now - t_prev: the clock may stand still or step back between two frames
Dts == {<<-1, 10>>, <<0, 1>>, <<1, 10>>, <<1, 4>>, <<1, 2>>, <<1, 1>>}

RECURSIVE Gcd(_, _)
Gcd(a, b) == IF b = 0 THEN a ELSE Gcd(b, a % b)

\* the float with numerator a and denominator b > 0
Frac(a, b) ==
    LET g == Gcd(IF a >= 0 THEN a ELSE -a, b)
    IN <<a \div g, b \div g>>

\* if dt > 0: fps = 0.8 * fps + 0.2 * (1.0 / dt)
FpsUpdateReplace(f, dt) ==
    IF dt[1] > 0 THEN Frac(dt[2], dt[1]) ELSE f

FpsUpdate(f, dt) ==
    IF dt[1] > 0
    THEN Frac(4 * f[1] * dt[1] + dt[2] * f[2], 5 * f[2] * dt[1])
    ELSE f

-----------------------------------------------------------------------------
(* DetectionThread: the worker's run and the methods its owner calls *)

MaxDrvFrames == 2

\* the threads the window starts, one after the other
Runs == {1, 2}

\* the frame size (h, w) of a video
VideoShapes == {<<2, 3>>, <<3, 2>>}

\* the annotator classes in the order of the dict literal of run
Kinds == <<"tracking", "predict", "heatmap">>

\* the instances the dict literal constructs in run r: those of the first
\* upto classes, each a new object
Constructed(all, r, upto) ==
    { [id |-> Cardinality(all) + i, kind |-> Kinds[i], run |-> r]
      : i \in 1..upto }

\* {...}[self.args.mode]
DetectorOfAnyRun(all, r, m) ==
    (CHOOSE i \in all :
        i.kind = m /\ \A j \in all : j.kind = m => i.id <= j.id).id

DetectorOf(all, r, m) == (CHOOSE i \in all : i.kind = m /\ i.run = r).id

\* self._wait.wakeAll(): a worker blocked in wait becomes runnable
WakeNobody(pos) == pos

Wake(pos) == IF pos = "waiting" THEN "woken" ELSE pos

\* the head of the loop and the per-frame check, under the mutex
AfterCheckNoStop(opened, stop, pause) ==
    IF ~opened THEN "release"
    ELSE IF pause THEN "waiting"
    ELSE "read"

AfterCheckNoPause(opened, stop, pause) ==
    IF ~opened \/ stop THEN "release" ELSE "read"

AfterCheck(opened, stop, pause) ==
    IF ~opened THEN "release"
    ELSE IF stop THEN "release"
    ELSE IF pause THEN "waiting"
    ELSE "read"

\* lines 102-108: create the writer if saving and there is none, then write
WriterRecreate(wr, save, fr) ==
    IF save
    THEN [wr EXCEPT !.made = @ + 1,
                    !.size = <<fr.shape[2], fr.shape[1]>>,
                    !.frames = <<fr.n>>]
    ELSE wr

WriterWrite(wr, save, fr) ==
    LET w1 == IF save /\ wr.made = 0
              THEN [wr EXCEPT !.made = 1,
                              !.size = <<fr.shape[2], fr.shape[1]>>]
              ELSE wr
    IN IF w1.made > 0 THEN [w1 EXCEPT !.frames = Append(@, fr.n)] ELSE w1

\* if not ok: break
AfterReadRaise(ok) == IF ok THEN "annotate" ELSE "except"

AfterRead(ok) == IF ok THEN "annotate" ELSE "release"

\* self.log.emit(f"Error: {e}", "error")
LogErrorTwice(sig) == [sig EXCEPT !.error = @ + 2]

LogError(sig) == [sig EXCEPT !.error = @ + 1]

\* self.finished.emit()
EmitFinishedTwice(sig) == [sig EXCEPT !.finished = @ + 2]

EmitFinished(sig) == [sig EXCEPT !.finished = @ + 1]

\* DetectionThread(args), thread.start()
StartThread ==
    /\ run + 1 \in Runs
    /\ run' = run + 1
    /\ \E m \in Modes, sv \in BOOLEAN : args' = [mode |-> m, save |-> sv]
    /\ wpc' = "construct"
    /\ paused' = FALSE
    /\ stopped' = FALSE
    /\ idx' = 0
    /\ cur' = NoFrame
    /\ cap' = NoCapture
    /\ writer' = NoWriter
    /\ emitted' = NoSignals
    /\ detector' = 0
    /\ calls' = {}
    /\ inflight' = 0
    /\ late' = 0
    /\ raised' = "none"
    /\ ended' = "none"
    /\ woke' = "none"
    /\ UNCHANGED <<insts, annotatorVars, pureVars>>

\* a caller that starts a thread only when none is running
Start ==
    /\ wpc \in {"none", "finished"}
    /\ StartThread
    /\ UNCHANGED gui

\* DetectionThread.pause
PauseThread ==
    /\ wpc # "none"
    /\ paused' = TRUE
    /\ UNCHANGED <<run, args, wpc, stopped, idx, cur, cap, writer, emitted,
                   insts, detector, calls, inflight, late, raised, ended>>
    /\ UNCHANGED woke
    /\ UNCHANGED <<annotatorVars, pureVars>>

\* DetectionThread.resume
ResumeThread ==
    /\ wpc # "none"
    /\ paused' = FALSE
    /\ wpc' = Wake(wpc)
    /\ woke' = IF wpc = "waiting" THEN "resume" ELSE woke
    /\ UNCHANGED <<run, args, stopped, idx, cur, cap, writer, emitted,
                   insts, detector, calls, inflight, late, raised, ended>>
    /\ UNCHANGED <<annotatorVars, pureVars>>

\* DetectionThread.stop
StopThread ==
    /\ wpc # "none"
    /\ stopped' = TRUE
    /\ IF paused
       THEN paused' = FALSE /\ wpc' = Wake(wpc)
       ELSE UNCHANGED <<paused, wpc>>
    /\ woke' = IF paused /\ wpc = "waiting" THEN "stop" ELSE woke
    /\ UNCHANGED <<run, args, idx, cur, cap, writer, emitted,
                   insts, detector, calls, inflight, late, raised, ended>>
    /\ UNCHANGED <<annotatorVars, pureVars>>

\* pause(), resume() and stop() called by any caller at any time
Pause == PauseThread /\ UNCHANGED gui

Resume == ResumeThread /\ UNCHANGED gui

Stop == StopThread /\ UNCHANGED gui


\* lines 70-76: the dict literal constructs Tracker, Predictor and
\* HeatmapGenerator in this order; upto < 3 is the constructor of class
\* upto + 1 raising
Construct ==
    /\ wpc = "construct"
    /\ \E upto \in 0..Len(Kinds) :
          /\ insts' = insts \cup Constructed(insts, run, upto)
          /\ IF upto = Len(Kinds)
             THEN /\ detector' = DetectorOf(insts', run, args.mode)
                  /\ wpc' = "prepare"
                  /\ raised' = raised
             ELSE /\ detector' = 0
                  /\ wpc' = "except"
                  /\ raised' = "construct"
    /\ UNCHANGED <<run, args, paused, stopped, idx, cur, cap, writer, emitted,
                   calls, inflight, late>>
    /\ ended' = ended
    /\ UNCHANGED woke
    /\ UNCHANGED gui
    /\ UNCHANGED <<annotatorVars, pureVars>>

\* lines 77-86: prepare_model, which may raise, then the capture is opened
\* (or fails to open: isOpened() is False) and the locals are set
Prepare ==
    /\ wpc = "prepare"
    /\ \/ /\ wpc' = "except"
          /\ raised' = "prepare"
          /\ cap' = cap
       \/ /\ wpc' = "check"
          /\ raised' = raised
          /\ \/ cap' = [state |-> "closed", shape |-> <<0, 0>>]
             \/ \E shape \in VideoShapes :
                   cap' = [state |-> "open", shape |-> shape]
    /\ UNCHANGED <<run, args, paused, stopped, idx, cur, writer, emitted,
                   insts, detector, calls, inflight, late>>
    /\ ended' = ended
    /\ UNCHANGED woke
    /\ UNCHANGED gui
    /\ UNCHANGED <<annotatorVars, pureVars>>

\* lines 88-95, up to the call of wait or the unlock
Check ==
    /\ wpc = "check"
    /\ wpc' = AfterCheck(cap.state = "open", stopped, paused)
    /\ ended' = IF cap.state # "open" THEN "unopened"
                ELSE IF wpc' = "release" THEN "stopped"
                ELSE ended
    /\ woke' = "none"
    /\ UNCHANGED <<run, args, paused, stopped, idx, cur, cap, writer, emitted,
                   insts, detector, calls, inflight, late, raised>>
    /\ UNCHANGED gui
    /\ UNCHANGED <<annotatorVars, pureVars>>

\* lines 94-95: wait returns with the mutex held, the worker unlocks it
WakeUp ==
    /\ wpc = "woken"
    /\ wpc' = "read"
    /\ UNCHANGED <<run, args, paused, stopped, idx, cur, cap, writer, emitted,
                   insts, detector, calls, inflight, late, raised, ended>>
    /\ UNCHANGED woke
    /\ UNCHANGED gui
    /\ UNCHANGED <<annotatorVars, pureVars>>

\* lines 97-99: cap.read(); a video has at most MaxDrvFrames frames
Read ==
    /\ wpc = "read"
    /\ \/ /\ cur.n < MaxDrvFrames
          /\ cur' = [n |-> cur.n + 1, shape |-> cap.shape]
          /\ wpc' = AfterRead(TRUE)
          /\ late' = IF stopped THEN late + 1 ELSE late
          /\ ended' = ended
       \/ /\ wpc' = AfterRead(FALSE)
          /\ ended' = "decode"
          /\ UNCHANGED <<cur, late>>
    /\ UNCHANGED <<run, args, paused, stopped, idx, cap, writer, emitted,
                   insts, detector, calls, inflight, raised>>
    /\ UNCHANGED woke
    /\ UNCHANGED gui
    /\ UNCHANGED <<annotatorVars, pureVars>>

\* line 100: detector.annotate_frame(frame) is entered
AnnotateCall ==
    /\ wpc = "annotate"
    /\ wpc' = "annotating"
    /\ inflight' = inflight + 1
    /\ calls' = calls \cup {<<detector, cur.n>>}
    /\ UNCHANGED <<run, args, paused, stopped, idx, cur, cap, writer, emitted,
                   insts, detector, late, raised, ended>>
    /\ UNCHANGED woke
    /\ UNCHANGED gui
    /\ UNCHANGED <<annotatorVars, pureVars>>

\* line 100: annotate_frame returns the pair or raises
AnnotateReturn ==
    /\ wpc = "annotating"
    /\ inflight' = inflight - 1
    /\ \/ wpc' = "write" /\ raised' = raised
       \/ wpc' = "except" /\ raised' = "annotate"
    /\ UNCHANGED <<run, args, paused, stopped, idx, cur, cap, writer, emitted,
                   insts, detector, calls, late>>
    /\ ended' = ended
    /\ UNCHANGED woke
    /\ UNCHANGED gui
    /\ UNCHANGED <<annotatorVars, pureVars>>

\* lines 102-108
Write ==
    /\ wpc = "write"
    /\ writer' = WriterWrite(writer, args.save, cur)
    /\ wpc' = "stats"
    /\ UNCHANGED <<run, args, paused, stopped, idx, cur, cap, emitted,
                   insts, detector, calls, inflight, late, raised, ended>>
    /\ UNCHANGED woke
    /\ UNCHANGED gui
    /\ UNCHANGED <<annotatorVars, pureVars>>

\* lines 110-128
EmitStats ==
    /\ wpc = "stats"
    /\ emitted' = [emitted EXCEPT !.stats_ready = @ + 1]
    /\ wpc' = "frame_ready"
    /\ UNCHANGED <<run, args, paused, stopped, idx, cur, cap, writer,
                   insts, detector, calls, inflight, late, raised, ended>>
    /\ UNCHANGED woke
    /\ UNCHANGED gui
    /\ UNCHANGED <<annotatorVars, pureVars>>

\* lines 130-133
EmitFrame ==
    /\ wpc = "frame_ready"
    /\ emitted' = [emitted EXCEPT !.frame_ready = @ + 1]
    /\ wpc' = "progress"
    /\ UNCHANGED <<run, args, paused, stopped, idx, cur, cap, writer,
                   insts, detector, calls, inflight, late, raised, ended>>
    /\ UNCHANGED woke
    /\ UNCHANGED gui
    /\ UNCHANGED <<annotatorVars, pureVars>>

\* lines 135-138
Progress ==
    /\ wpc = "progress"
    /\ idx' = idx + 1
    /\ emitted' = [emitted EXCEPT !.progress = @ + 1, !.info = @ + 1]
    /\ wpc' = "check"
    /\ UNCHANGED <<run, args, paused, stopped, cur, cap, writer,
                   insts, detector, calls, inflight, late, raised, ended>>
    /\ UNCHANGED woke
    /\ UNCHANGED gui
    /\ UNCHANGED <<annotatorVars, pureVars>>

\* lines 140-144
Release ==
    /\ wpc = "release"
    /\ cap' = [cap EXCEPT !.state = "released"]
    /\ writer' = IF writer.made > 0
                 THEN [writer EXCEPT !.released = TRUE] ELSE writer
    /\ emitted' = [emitted EXCEPT
                      !.saved = IF writer.made > 0 THEN @ + 1 ELSE @,
                      !.processed = @ + 1]
    /\ wpc' = "finally"
    /\ UNCHANGED <<run, args, paused, stopped, idx, cur,
                   insts, detector, calls, inflight, late, raised, ended>>
    /\ UNCHANGED woke
    /\ UNCHANGED gui
    /\ UNCHANGED <<annotatorVars, pureVars>>

\* lines 145-146
Except ==
    /\ wpc = "except"
    /\ emitted' = LogError(emitted)
    /\ wpc' = "finally"
    /\ UNCHANGED <<run, args, paused, stopped, idx, cur, cap, writer,
                   insts, detector, calls, inflight, late, raised, ended>>
    /\ UNCHANGED woke
    /\ UNCHANGED gui
    /\ UNCHANGED <<annotatorVars, pureVars>>

\* lines 147-148
Finally ==
    /\ wpc = "finally"
    /\ emitted' = EmitFinished(emitted)
    /\ wpc' = "finished"
    /\ UNCHANGED <<run, args, paused, stopped, idx, cur, cap, writer,
                   insts, detector, calls, inflight, late, raised, ended>>
    /\ UNCHANGED woke
    /\ UNCHANGED gui
    /\ UNCHANGED <<annotatorVars, pureVars>>

InitDriver == AnnotatorOff /\ DriverOff /\ PureOff

NextDriver ==
    \/ Start \/ Pause \/ Resume \/ Stop
    \/ Construct \/ Prepare \/ Check \/ WakeUp \/ Read
    \/ AnnotateCall \/ AnnotateReturn \/ Write
    \/ EmitStats \/ EmitFrame \/ Progress
    \/ Release \/ Except \/ Finally

SpecDriver == InitDriver /\ [][NextDriver]_vars

\* the steps of the worker thread, QThread.run
Worker ==
    \/ Construct \/ Prepare \/ Check \/ WakeUp \/ Read
    \/ AnnotateCall \/ AnnotateReturn \/ Write
    \/ EmitStats \/ EmitFrame \/ Progress
    \/ Release \/ Except \/ Finally

\* the worker is a thread of its own: the operating system keeps scheduling
\* it while it is runnable, and every call it makes returns or raises
SpecDriverFair == SpecDriver /\ WF_vars(Worker)

-----------------------------------------------------------------------------
(* The window of src/gui.py: the handlers of the three buttons and of the
   finished signal run one at a time in the GUI thread; the worker runs
   beside them *)

\* _on_start, lines 456-459
OnStartButtonsKeepStart(g) ==
    [g EXCEPT !.pause_btn = TRUE, !.stop_btn = TRUE, !.pause_text = "Pause"]

OnStartButtons(g) ==
    [g EXCEPT !.start_btn = FALSE, !.pause_btn = TRUE, !.stop_btn = TRUE,
              !.pause_text = "Pause"]

\* _on_finish, lines 477-479
OnFinishButtons(g) ==
    [g EXCEPT !.start_btn = TRUE, !.pause_btn = FALSE, !.stop_btn = FALSE]

\* a click on Start: clicked reaches _on_start only while the button is
\* enabled; a new thread replaces self.thread and is started
OnStart ==
    /\ gui.start_btn
    /\ StartThread
    /\ gui' = [OnStartButtons(gui) EXCEPT
                  !.handled = FALSE,
                  !.sent = "never",
                  !.overlap = @ \/ wpc \notin {"none", "finished"}]

\* a click on Pause/Resume: the text of the button decides the call
OnPause ==
    /\ gui.pause_btn
    /\ IF gui.pause_text = "Pause"
       THEN /\ PauseThread
            /\ gui' = [gui EXCEPT !.pause_text = "Resume", !.sent = wpc]
       ELSE /\ ResumeThread
            /\ gui' = [gui EXCEPT !.pause_text = "Pause", !.sent = wpc]

\* a click on Stop
OnStop ==
    /\ gui.stop_btn
    /\ StopThread
    /\ gui' = [gui EXCEPT !.sent = wpc]

\* the finished signal of the worker is delivered through the event queue
\* of the GUI thread: _on_finish runs some time after finished.emit()
OnFinish ==
    /\ emitted.finished = 1
    /\ ~gui.handled
    /\ gui' = [OnFinishButtons(gui) EXCEPT !.handled = TRUE]
    /\ UNCHANGED <<run, args, wpc, paused, stopped, idx, cur, cap, writer,
                   emitted, insts, detector, calls, inflight, late, raised,
                   ended, woke>>
    /\ UNCHANGED <<annotatorVars, pureVars>>

InitGui == AnnotatorOff /\ DriverOff /\ PureOff

NextGui ==
    \/ OnStart \/ OnPause \/ OnStop \/ OnFinish
    \/ Construct \/ Prepare \/ Check \/ WakeUp \/ Read
    \/ AnnotateCall \/ AnnotateReturn \/ Write
    \/ EmitStats \/ EmitFrame \/ Progress
    \/ Release \/ Except \/ Finally

SpecGui == InitGui /\ [][NextGui]_vars

\* calls of id_to_color, with other users of the random module in between
InitColor ==
    /\ AnnotatorOff
    /\ DriverOff
    /\ SmoothOff
    /\ rng \in [seed : StartSeeds, pos : {0}]
    /\ log = <<>>
    /\ FpsOff
    /\ TrailOff

ColorCall ==
    /\ Len(log) < MaxCalls
    /\ \E tid \in ColorIds :
          \E r \in {id_to_color(rng, tid)} :
             /\ log' = Append(log, [idx |-> tid, out |-> r.out])
             /\ rng' = r.rng
    /\ UNCHANGED <<annotatorVars, driverVars, sp, fps, trail>>

\* random.random() called by other code
OtherRandom ==
    /\ rng.pos < MaxDraws
    /\ rng' = Advance(rng)
    /\ UNCHANGED <<annotatorVars, driverVars, sp, log, fps, trail>>

NextColor == ColorCall \/ OtherRandom

SpecColor == InitColor /\ [][NextColor]_vars

\* the fps value over the frames of one run
InitFps ==
    /\ AnnotatorOff
    /\ DriverOff
    /\ SmoothOff
    /\ ColorOff
    /\ FpsOff
    /\ TrailOff

\* lines 123-127 of one iteration of the loop
FpsFrame ==
    /\ fps.n < MaxFpsFrames
    /\ \E dt \in Dts :
          fps' = [value |-> FpsUpdate(fps.value, dt), n |-> fps.n + 1,
                  dt |-> dt]
    /\ UNCHANGED <<annotatorVars, driverVars, sp, rng, log, trail>>

NextFps == FpsFrame

SpecFps == InitFps /\ [][NextFps]_vars

\* the rendering of one track
InitTrail ==
    /\ AnnotatorOff
    /\ DriverOff
    /\ SmoothOff
    /\ ColorOff
    /\ FpsOff
    /\ \E n \in 0..MaxPath :
          trail \in [pc : {"listed"}, pts : [1..n -> PathPoints],
                     smooth : BOOLEAN, segs : {<<>>}]

RenderTrail ==
    /\ trail.pc = "listed"
    /\ trail' = [trail EXCEPT !.pc = "drawn",
                              !.segs = DrawTrail(trail.pts, trail.smooth)]
    /\ UNCHANGED <<annotatorVars, driverVars, sp, rng, log, fps>>

NextTrail == RenderTrail

SpecTrail == InitTrail /\ [][NextTrail]_vars

-----------------------------------------------------------------------------
(* Claims about the track histories *)

Ids(res) == Range(res.ids)

DrewHistory == lastOp = "draw_history" /\ outcome = "ok"

\* C1: after any sequence of frames every track's history holds between 0
\* and L points, L being the configured lines_history, or 150 when that is
\* unset or 0.
C1_HistoryBounded ==
    \A tid \in DOMAIN history :
        /\ 0 <= Len(history[tid])
        /\ Len(history[tid]) <=
              (IF cfg.lines_history = 0 THEN 150 ELSE cfg.lines_history)

\* a history at its capacity of 2 in a frame that appended to it again
C1_Witness ==
    /\ DrewHistory /\ cfg.lines_history = 2 /\ frames >= 3
    /\ 7 \in Ids(results) /\ 7 \in DOMAIN history /\ Len(history[7]) = 2
    /\ history[7][1] # history[7][2]

\* C2: in draw_history a track with fewer than 2 points is removed in the
\* first frame that does not detect its id, an absent track with at least 2
\* points is kept, and a track whose id is detected in the frame is never
\* removed in that frame.
C2_PruneRule ==
    [][ (lastOp' = "draw_history" /\ outcome' = "ok") =>
          /\ \A tid \in DOMAIN history :
                /\ (tid \notin Ids(results') /\ Len(history[tid]) < 2)
                      => tid \notin DOMAIN history'
                /\ (tid \notin Ids(results') /\ Len(history[tid]) >= 2)
                      => tid \in DOMAIN history'
          /\ \A tid \in Ids(results') : tid \in DOMAIN history' ]_vars

\* track 9 was handed to draw_history before and is gone in a frame without
\* it, while the absent track 7 is kept with its 2 points
C2_Witness ==
    /\ DrewHistory /\ Ids(results) = {}
    /\ 9 \in drawn /\ 9 \notin DOMAIN history
    /\ 7 \in DOMAIN history /\ Len(history[7]) = 2

\* C3: for capacity L >= 2, once a track's history holds at least 2 points
\* no later frame removes the track, and every frame without its id leaves
\* its history as it was.
C3_TwoPointsPersist ==
    [][ \A tid \in DOMAIN history :
           (MaxLen(cfg.lines_history) >= 2 /\ Len(history[tid]) >= 2) =>
              /\ tid \in DOMAIN history'
              /\ Len(history'[tid]) >= 2
              /\ tid \notin Ids(results') => history'[tid] = history[tid] ]_vars

\* id 7 seen in three frames and then absent keeps its 3 points after the
\* fifth frame; id 9, seen once, is gone
C3_Witness ==
    /\ DrewHistory /\ frames = 5 /\ Ids(results) = {}
    /\ 7 \in DOMAIN history /\ Len(history[7]) = 3
    /\ 9 \in drawn /\ 9 \notin DOMAIN history

-----------------------------------------------------------------------------
(* Claims about Tracker.annotate_frame and the unique-ID set *)

Annotated == lastOp = "annotate_frame"

Last(d) == d[Len(d)]

\* C4: every call of the Tracker's annotate operation on a frame with
\* well-formed detections appends each detection's centre to history[id],
\* creating the track if absent, and adds id to the unique-ID set.
C4_AnnotateAppends ==
    [][ (mode = "tracking" /\ lastOp' = "annotate_frame" /\ outcome' = "ok") =>
          \A i \in 1..Len(results'.ids) :
             /\ results'.ids[i] \in counter'
             /\ results'.ids[i] \in DOMAIN history'
             /\ history'[results'.ids[i]] # <<>>
             /\ Last(history'[results'.ids[i]]) = results'.xywh[i] ]_vars

\* C5: whenever Tracker.annotate_frame returns the degraded result, the
\* unique-ID set and all track histories are what they were before the call.
C5_DegradedLeavesState ==
    [][ (mode = "tracking" /\ lastOp' = "annotate_frame"
           /\ outcome' = "degraded") =>
          (counter' = counter /\ history' = history) ]_vars

C7_TotalUnique ==
    [][ (mode = "tracking" /\ lastOp' = "annotate_frame"
           /\ outcome' # "raised") =>
          /\ stats'.total_unique = Cardinality(seen')
          /\ stats'.total_unique >= stats.total_unique
          /\ (seen = {} /\ Ids(results') = {}) => stats'.total_unique = 0 ]_vars

\* a frame with the single id 9 raised the reported total to 2
C7_Witness ==
    /\ Annotated /\ mode = "tracking" /\ outcome = "ok"
    /\ results.ids = <<9>> /\ stats.total_unique = 2 /\ stats.current = 1

-----------------------------------------------------------------------------
(* Claims about the heatmap grid and the coverage *)

\* a <= b for fractions <<num, den>> with positive denominators
FracLeq(a, b) == a[1] * b[2] <= b[1] * a[2]

Nonzero(hm) == {c \in DOMAIN hm.data : hm.data[c] # 0}

\* the frame of this step has the size of the grid the step started with
SameSize == heatmap.alloc /\ frame' = <<heatmap.h, heatmap.w>>

HeatStep == mode = "heatmap" /\ lastOp' = "annotate_frame"

\* the pixels of the detections of res that lie inside an h x w frame
Centres(res, h, w) ==
    { p \in { <<ToInt(res.xywh[i][1]), ToInt(res.xywh[i][2])>>
              : i \in 1..Len(res.xywh) }
        : 0 <= p[1] /\ p[1] < w /\ 0 <= p[2] /\ p[2] < h }

\* C8: coverage, recomputed on every annotate_frame as
\* count(non-zero cells) / (h*w) * 100 from the raw grid, is always within
\* [0, 100] and never decreases between consecutive frames of the same size,
\* because no grid cell decreases while the grid size is constant.
C8_CoverageMonotone ==
    /\ FracLeq(<<0, 1>>, coverage) /\ FracLeq(coverage, <<100, 1>>)
    /\ [][ HeatStep =>
             /\ FracLeq(<<0, 1>>, coverage') /\ FracLeq(coverage', <<100, 1>>)
             /\ outcome' = "ok" =>
                   /\ coverage'[1] = 100 * Cardinality(Nonzero(heatmap'))
                   /\ coverage'[2] = frame'[1] * frame'[2]
             /\ SameSize =>
                   /\ FracLeq(coverage, coverage')
                   /\ \A c \in DOMAIN heatmap.data :
                         heatmap'.data[c] >= heatmap.data[c] ]_vars

\* the second of two 2 x 3 frames has one detection, whose disk of radius 1
\* covers 3 cells, and the coverage reported after it is 100 per cent
C8_Witness ==
    /\ mode = "heatmap" /\ Annotated /\ outcome = "ok" /\ frames = 2
    /\ frame = prev_frame /\ frame = <<2, 3>> /\ cfg.radius = 1
    /\ Len(results.xywh) = 1 /\ stats.coverage = <<600, 6>>

\* C9: stamping is a saturating set: every grid cell is always 0 or 1.0,
\* stamping disks onto cells that are already set (in the same frame or a
\* later one) leaves the grid and the coverage unchanged, and stamping a
\* disjoint point afterwards increases the coverage.
C9_SaturatingStamp ==
    /\ \A c \in DOMAIN heatmap.data : heatmap.data[c] \in {0, 1}
    /\ [][ (HeatStep /\ outcome' = "ok" /\ SameSize) =>
             LET h == frame'[1]
                 w == frame'[2]
                 disks == { DiskCells(h, w, p[1], p[2], cfg.radius)
                            : p \in Centres(results', h, w) }
             IN /\ \A c \in DOMAIN heatmap'.data : heatmap'.data[c] \in {0, 1}
                /\ (\A d \in disks : d \subseteq Nonzero(heatmap)) =>
                      (heatmap' = heatmap /\ coverage' = coverage)
                /\ (\E d \in disks : d \cap Nonzero(heatmap) = {}) =>
                      ~FracLeq(coverage', coverage) ]_vars

\* the second 2 x 3 frame stamps pixel (0, 0) twice, through two different
\* centres, and the coverage is that of one disk of radius 1: 3 cells of 6
C9_Witness ==
    /\ mode = "heatmap" /\ Annotated /\ outcome = "ok" /\ frames = 2
    /\ frame = prev_frame /\ frame = <<2, 3>> /\ cfg.radius = 1
    /\ results.xywh = << <<0, -1>>, <<1, 0>> >>
    /\ coverage = <<300, 6>>
    /\ \A c \in Cells(2, 3) : heatmap.data[c] = 1 <=> c[1] + c[2] <= 1

\* C10: after annotate_frame on a frame of size h x w the grid has exactly
\* size h x w; if the size is that of the previous frame every cell that was
\* set is still set, and if it differs, or this is the first frame, the grid
\* was zero-filled before stamping, so it holds only this frame's stamps and
\* the coverage is computed from them alone.
C10_GridFollowsFrame ==
    [][ HeatStep =>
          LET h == frame'[1]
              w == frame'[2]
              stamps == UNION { DiskCells(h, w, p[1], p[2], cfg.radius)
                                : p \in Centres(results', h, w) }
          IN /\ heatmap'.alloc
             /\ <<heatmap'.h, heatmap'.w>> = <<h, w>>
             /\ DOMAIN heatmap'.data = Cells(h, w)
             /\ SameSize => Nonzero(heatmap) \subseteq Nonzero(heatmap')
             /\ ~SameSize =>
                   /\ Nonzero(heatmap') = stamps
                   /\ outcome' = "ok" =>
                         coverage' = <<100 * Cardinality(stamps), h * w>> ]_vars

\* a 2 x 3 frame followed by a 2 x 2 frame with one detection: the grid has
\* 4 cells, of which only the 3 of that detection's disk are set
C10_Witness ==
    /\ mode = "heatmap" /\ Annotated /\ outcome = "ok" /\ cfg.radius = 1
    /\ prev_frame = <<2, 3>> /\ frame = <<2, 2>>
    /\ stats.coverage = <<300, 4>> /\ Len(results.xywh) = 1
    /\ heatmap.h = 2 /\ heatmap.w = 2 /\ frames >= 2

\* the integer part of the coordinate x2 (in half pixels): the integer n
\* nearest to zero with |x2/2| - |n| < 1 and the sign of x2
Truncated ==
    [x2 \in -8..8 |->
        CHOOSE n \in -4..4 :
            /\ n * x2 >= 0
            /\ (IF n >= 0 THEN 2 * n ELSE -2 * n)
                  <= (IF x2 >= 0 THEN x2 ELSE -x2)
            /\ (IF x2 >= 0 THEN x2 ELSE -x2)
                  < (IF n >= 0 THEN 2 * n ELSE -2 * n) + 2]

\* the offsets <<dy, dx>> at distance at most r
EuclidOffsets ==
    [r \in Radii |->
        { d \in ((-r)..r) \X ((-r)..r) : d[1] * d[1] + d[2] * d[2] <= r * r }]

\* the cells of an h x w grid within distance r of pixel (cx, cy)
EuclidCells(h, w, cx, cy, r) ==
    { c \in Cells(h, w) : <<c[1] - cy, c[2] - cx>> \in EuclidOffsets[r] }

\* the truncated centres of the detections of res that lie in an h x w frame
TruncatedInside(res, h, w) ==
    { p \in { <<Truncated[res.xywh[i][1]], Truncated[res.xywh[i][2]]>>
              : i \in 1..Len(res.xywh) }
        : 0 <= p[1] /\ p[1] < w /\ 0 <= p[2] /\ p[2] < h }

\* C11: a detection whose truncated centre lies outside 0 <= cx < w,
\* 0 <= cy < h changes no grid cell, though it is counted in the returned
\* count; a detection whose truncated centre lies inside sets to 1.0 exactly
\* the cells within radius r of the centre that fall inside the grid.
C11_StampEffect ==
    [][ (HeatStep /\ fault' # "detector") =>
          \E base \in {IF SameSize THEN Nonzero(heatmap) ELSE {}},
             inside \in {TruncatedInside(results', frame'[1], frame'[2])} :
             /\ Nonzero(heatmap') =
                   base \cup UNION { EuclidCells(frame'[1], frame'[2],
                                                 p[1], p[2], cfg.radius)
                                     : p \in inside }
             /\ \A c \in DOMAIN heatmap'.data : heatmap'.data[c] \in {0, 1}
             /\ DOMAIN heatmap'.data = Cells(frame'[1], frame'[2])
             /\ inside = {} => Nonzero(heatmap') = base
             /\ outcome' = "ok" => ret'.count = Len(results'.xywh) ]_vars

\* a 2 x 2 frame with two detections, at (2, 1) outside the frame and at
\* (0, -0.5), which truncates to pixel (0, 0): both are counted and the grid
\* holds the disk of radius 1 around (0, 0) only
C11_Witness ==
    /\ mode = "heatmap" /\ Annotated /\ outcome = "ok" /\ cfg.radius = 1
    /\ frame = <<2, 2>> /\ frames = 1
    /\ results.xywh = << <<4, 2>>, <<0, -1>> >>
    /\ ret.count = 2
    /\ Nonzero(heatmap) = {<<0, 0>>, <<0, 1>>, <<1, 0>>}

-----------------------------------------------------------------------------
(* Claims about the order of a track's history *)

\* the centre of track tid in the frame's results
CentreOf(res, tid) ==
    res.xywh[CHOOSE i \in 1..Len(res.ids) : res.ids[i] = tid]

\* the last n elements of d
Newest(d, n) == SubSeq(d, Len(d) - n + 1, Len(d))

Capacity == IF cfg.lines_history = 0 THEN 150 ELSE cfg.lines_history

\* C12: a track's history is the sequence of centres observed since the
\* track was created or re-created, newest last, truncated to the most recent
\* L: every draw_history step starts the history of a new track with the
\* observed centre alone, and extends the history of a known track by the
\* observed centre at its end, keeping of the old points the most recent
\* ones that fit; appending to a full history drops exactly the oldest point.
C12_HistoryOrder ==
    [][ (lastOp' = "draw_history" /\ outcome' = "ok") =>
          \A tid \in Ids(results') :
             LET p == CentreOf(results', tid)
                 new == history'[tid]
             IN IF tid \notin DOMAIN history
                THEN new = <<p>>
                ELSE LET old == history[tid]
                     IN /\ Last(new) = p
                        /\ Len(new) = IF Len(old) < Capacity
                                      THEN Len(old) + 1 ELSE Capacity
                        /\ Newest(new, Len(new)) =
                              Newest(Append(old, p), Len(new))
                        /\ Len(old) = Capacity =>
                              /\ new = Append(Tail(old), p)
                              /\ <<tid, Head(old)>> \in evicted' ]_vars

\* track 7 with capacity 2 was seen at (5, 5), (10, 10) and (10, 10): the
\* append of the third centre pushed (5, 5) out and the two newest remain
C12_Witness ==
    /\ DrewHistory /\ cfg.lines_history = 2
    /\ 7 \in Ids(results) /\ CentreOf(results, 7) = <<10, 10>>
    /\ evicted = {<<7, <<5, 5>>>>}
    /\ history[7] = << <<10, 10>>, <<10, 10>> >>

-----------------------------------------------------------------------------
(* Claims about the stats event *)

-----------------------------------------------------------------------------
(* Claims about smooth_path *)

\* C20: smooth_path returns a sequence of the same length as its input for
\* every input and every k >= 0, and returns the input unchanged when it has
\* fewer than 3 points.
C20_SmoothLength ==
    sp.pc = "returned" =>
        /\ Len(sp.out) = Len(sp.points)
        /\ Len(sp.points) < 3 => sp.out = sp.points

\* two different points with k = 1 come back as they were, although the
\* mean of the window around either of them is another point
C20_Witness ==
    /\ sp.pc = "returned" /\ sp.k = 1 /\ Len(sp.points) = 2
    /\ sp.points[1] # sp.points[2] /\ sp.out = sp.points
    /\ Mean(sp.points) # sp.points[1]

-----------------------------------------------------------------------------
(* Claims about the worker thread *)

\* C13: a worker that finds the pause flag set at its per-frame check blocks,
\* and decodes and annotates no frame until resume() or stop() is called
\* afterwards, under every interleaving of the worker with its callers: the
\* check of a running, paused worker leads into the wait; nothing but a step
\* of resume() or stop() takes the worker out of the wait; and no step taken
\* while it waits decodes, annotates or reports a frame.
C13_PauseBlocks ==
    /\ [][ (wpc = "check" /\ wpc' # "check" /\ cap.state = "open"
             /\ paused /\ ~stopped) => wpc' = "waiting" ]_vars
    /\ [][ (wpc = "waiting" /\ wpc' # "waiting") => (Resume \/ Stop) ]_vars
    /\ [][ wpc = "waiting" =>
             /\ cur' = cur /\ calls' = calls /\ inflight' = inflight
             /\ idx' = idx /\ emitted' = emitted /\ writer' = writer ]_vars

\* the worker is blocked at its check after its first frame: one frame was
\* decoded, annotated and reported, and no call of annotate_frame is open
C13_Witness ==
    /\ wpc = "waiting" /\ paused /\ ~stopped
    /\ cur.n = 1 /\ idx = 1 /\ Cardinality(calls) = 1 /\ inflight = 0

\* the positions of a worker whose per-frame check has passed, in the order
\* in which a frame goes through them
FrameSteps ==
    <<"read", "annotate", "annotating", "write", "stats", "frame_ready",
      "progress", "check">>

InFrame == { FrameSteps[i] : i \in 1..(Len(FrameSteps) - 1) }

AfterStep(pos) ==
    FrameSteps[(CHOOSE i \in 1..Len(FrameSteps) : FrameSteps[i] = pos) + 1]

\* C14: the stop flag is observed only at the per-frame check. A worker
\* whose check has passed moves through decode, annotate, write, stats event,
\* frame event and progress in this order whatever the stop flag is, and
\* leaves this path only when the decode fails or annotate_frame raises; the
\* frame that completes has been annotated, written if a path is configured
\* and reported; a check that finds the stop flag set leaves the loop; and
\* at most one frame is decoded after stop() has returned.
C14_StopAtCheck ==
    /\ [](late <= 1)
    /\ [][ (wpc \in InFrame /\ wpc' # wpc) =>
             \/ wpc' = AfterStep(wpc)
             \/ wpc = "read" /\ wpc' = "release" /\ cur' = cur
             \/ wpc = "annotating" /\ wpc' = "except" ]_vars
    /\ [][ (wpc = "progress" /\ wpc' = "check") =>
             /\ <<detector, cur.n>> \in calls
             /\ args.save => writer.frames[Len(writer.frames)] = cur.n
             /\ emitted'.stats_ready = cur.n
             /\ emitted'.frame_ready = cur.n
             /\ emitted'.progress = cur.n
             /\ idx' = cur.n ]_vars
    /\ [][ (wpc = "check" /\ wpc' # "check" /\ stopped) =>
             wpc' = "release" ]_vars

\* stop() returned after the check had passed: the frame decoded after it
\* was annotated, written and reported, and the next check left the loop
C14_Witness ==
    /\ wpc = "release" /\ stopped /\ late = 1
    /\ cur.n = 1 /\ idx = 1 /\ calls = {<<detector, 1>>}
    /\ args.save /\ writer.frames = <<1>>
    /\ emitted.stats_ready = 1 /\ emitted.frame_ready = 1
    /\ emitted.progress = 1

\* the instances the current run has constructed
OwnInstances == { i \in insts : i.run = run }

\* C15: within a run the annotate_frame calls are strictly sequential: at
\* most one call is open at any time and a frame is decoded only when none
\* is. No annotator instance is used by two runs: every constructed instance
\* is a new object, and every call of a run goes to the one instance of the
\* run's mode that this run constructed.
C15_OwnAnnotator ==
    /\ [](inflight <= 1)
    /\ [][ cur' # cur => inflight = 0 /\ inflight' = 0 ]_vars
    /\ [](\A i, j \in insts : i.id = j.id => i = j)
    /\ [](\A c \in calls :
             /\ c[1] = detector
             /\ \E i \in OwnInstances : i.id = c[1] /\ i.kind = args.mode)

\* the second thread is inside annotate_frame of its own predictor for its
\* second frame; the predictor of the first thread still exists
C15_Witness ==
    /\ run = 2 /\ wpc = "annotating" /\ inflight = 1 /\ args.mode = "predict"
    /\ calls = {<<detector, 1>>, <<detector, 2>>}
    /\ \E i \in insts : i.run = 1 /\ i.kind = "predict" /\ i.id # detector
    /\ \E i \in insts : i.run = 2 /\ i.kind = "predict" /\ i.id = detector

\* C26: per run only the annotator variant that matches the mode string is
\* constructed, once; no instance of the other two variants is created.
C26_OnlySelected ==
    /\ \A i \in OwnInstances : i.kind = args.mode
    /\ Cardinality(OwnInstances) <= 1

\* construction or prepare_model raised in this run
SetupFailed == raised \in {"construct", "prepare"}

\* C17: if the construction of an annotator or prepare_model raises, the
\* worker emits exactly one error-level log event, decodes and annotates no
\* frame, emits no frame_ready, stats_ready or progress event, and then
\* emits finished: the error is logged before finished, nothing is emitted
\* in between, and the thread does nothing after it.
C17_SetupFailure ==
    /\ [](SetupFailed =>
             /\ wpc \in {"except", "finally", "finished"}
             /\ emitted.error = (IF wpc = "except" THEN 0 ELSE 1)
             /\ emitted.finished = (IF wpc = "finished" THEN 1 ELSE 0)
             /\ cur = NoFrame /\ calls = {} /\ cap = NoCapture
             /\ emitted.frame_ready = 0 /\ emitted.stats_ready = 0
             /\ emitted.progress = 0 /\ emitted.info = 0
             /\ emitted.processed = 0 /\ emitted.saved = 0)
    /\ [][ (SetupFailed /\ run' = run /\ wpc' # wpc) =>
             \/ wpc = "except" /\ wpc' = "finally"
             \/ wpc = "finally" /\ wpc' = "finished" ]_vars

\* the constructor of HeatmapGenerator raised after Tracker and Predictor
\* had been constructed: one error was logged and finished was emitted
C17_Witness ==
    /\ raised = "construct" /\ wpc = "finished" /\ run = 1
    /\ Cardinality(insts) = 2 /\ detector = 0
    /\ emitted = [NoSignals EXCEPT !.error = 1, !.finished = 1]

\* the frames on which annotate_frame was called in this run
AnnotatedFrames == { c[2] : c \in calls }

\* C18: when a frame fails to decode, or the stream ends, the loop is left
\* without any error-level log: the failed read leads to no call of
\* annotate_frame, the capture and the writer, if there is one, are
\* released, the success log "Processing finished." is emitted, and then
\* finished.
C18_DecodeFailure ==
    /\ [][ (wpc = "read" /\ wpc' # "read" /\ cur' = cur) =>
             /\ wpc' = "release" /\ ended' = "decode"
             /\ calls' = calls /\ inflight' = 0 /\ emitted' = emitted ]_vars
    /\ [](ended = "decode" =>
             /\ wpc \in {"release", "finally", "finished"}
             /\ raised = "none" /\ emitted.error = 0
             /\ AnnotatedFrames = 1..cur.n
             /\ emitted.processed = (IF wpc = "release" THEN 0 ELSE 1)
             /\ emitted.finished = (IF wpc = "finished" THEN 1 ELSE 0)
             /\ wpc # "release" =>
                   /\ cap.state = "released"
                   /\ writer.made > 0 => writer.released)
    /\ [][ (ended = "decode" /\ run' = run /\ wpc' # wpc) =>
             \/ wpc = "release" /\ wpc' = "finally"
             \/ wpc = "finally" /\ wpc' = "finished" ]_vars

\* the second read of a saving run failed: one frame was annotated and
\* written, capture and writer are released, both success logs and
\* finished were emitted, and no error
C18_Witness ==
    /\ ended = "decode" /\ wpc = "finished" /\ args.save
    /\ cur.n = 1 /\ AnnotatedFrames = {1}
    /\ cap.state = "released" /\ writer.released /\ writer.frames = <<1>>
    /\ emitted.processed = 1 /\ emitted.saved = 1 /\ emitted.error = 0
    /\ emitted.finished = 1

\* the number of frames of this run that annotate_frame has returned and
\* that are past the writer lines
PastWriter ==
    IF raised = "annotate" \/ wpc \in {"annotate", "annotating", "write"}
    THEN cur.n - 1
    ELSE cur.n

\* C19: when an output path is configured the writer is created once per
\* run, at the first annotated frame and with that frame's width and height,
\* and every annotated frame of the run is written to it in decode order;
\* when no output path is configured no writer is ever created and no
\* "Video saved" log is emitted.
C19_WriterOnce ==
    /\ [](writer.made <= 1)
    /\ [](args.save =>
             /\ writer.made = (IF PastWriter >= 1 THEN 1 ELSE 0)
             /\ writer.frames = [i \in 1..PastWriter |-> i]
             /\ writer.made = 1 => writer.size = <<cap.shape[2], cap.shape[1]>>
             /\ emitted.saved <= 1)
    /\ [](~args.save => writer = NoWriter /\ emitted.saved = 0)
    /\ [][ (run' = run /\ writer'.made # writer.made) =>
             /\ args.save /\ wpc = "write" /\ cur.n = 1
             /\ writer.made = 0 /\ writer'.made = 1
             /\ writer'.size = <<cur.shape[2], cur.shape[1]>>
             /\ writer'.frames = <<1>> ]_vars

\* a saving run over a video of two frames, 2 high and 3 wide: one writer
\* of size (3, 2) holds frames 1 and 2, is released and logged as saved
C19_Witness ==
    /\ args.save /\ wpc = "finished" /\ cur.n = 2
    /\ writer = [made |-> 1, size |-> <<3, 2>>, frames |-> <<1, 2>>,
                 released |-> TRUE]
    /\ cap.shape = <<2, 3>> /\ emitted.saved = 1

\* the 0-based indices of the window around index i of n points
Neighbours(i, n, k) == { j \in 0..(n - 1) : i - k <= j /\ j <= i + k }

\* the sum of coordinate c of the points of pts at the 0-based indices J
RECURSIVE SumAt(_, _, _)
SumAt(pts, J, c) ==
    IF J = {} THEN 0
    ELSE LET j == CHOOSE x \in J : TRUE
         IN pts[j + 1][c][1] + SumAt(pts, J \ {j}, c)

\* the fraction f is the number num / cnt
IsQuotient(f, num, cnt) == f[2] > 0 /\ f[1] * cnt = num * f[2]

\* C21: for an input of n >= 3 points, output point i of smooth_path is the
\* coordinate-wise mean of the input points at the indices max(0, i-k) ..
\* min(n-1, i+k), at most 2k+1 of them, and the call leaves its input as it
\* was.
C21_SmoothMean ==
    /\ [](sp.pc = "returned" /\ Len(sp.points) >= 3 =>
             \A i \in 0..(Len(sp.points) - 1) :
                \E J \in {Neighbours(i, Len(sp.points), sp.k)} :
                   /\ Cardinality(J) <= 2 * sp.k + 1
                   /\ i \in J
                   /\ \A c \in 1..2 :
                         IsQuotient(sp.out[i + 1][c], SumAt(sp.points, J, c),
                                    Cardinality(J)))
    /\ [][sp'.points = sp.points /\ sp'.k = sp.k]_vars

\* four points smoothed with k = 1: the first output is the mean of two
\* points, the second the mean of three, and the input is still the path
C21_Witness ==
    /\ sp.pc = "returned" /\ sp.k = 1
    /\ sp.points = << <<AsFloat(0), AsFloat(0)>>, <<AsFloat(6), AsFloat(0)>>,
                      <<AsFloat(3), AsFloat(9)>>, <<AsFloat(0), AsFloat(0)>> >>
    /\ sp.out[1] = << <<6, 2>>, <<0, 2>> >>
    /\ sp.out[2] = << <<9, 3>>, <<9, 3>> >>
    /\ sp.out[4] = << <<3, 2>>, <<9, 2>> >>

-----------------------------------------------------------------------------
(* Claims about id_to_color *)

\* C22: id_to_color(id) depends only on id: two calls with the same id
\* return the identical triple, whatever calls with other ids, and whatever
\* other draws from the generator, were made before or in between.
C22_ColorPure ==
    \A i, j \in 1..Len(log) : log[i].idx = log[j].idx => log[i].out = log[j].out

\* id 7, then id 9 with another colour, then id 7 again: both calls for 7
\* returned the same triple
C22_Witness ==
    /\ Len(log) = 3 /\ log[1].idx = 7 /\ log[2].idx = 9 /\ log[3].idx = 7
    /\ log[1].out = log[3].out /\ log[2].out # log[1].out
    /\ rng = [seed |-> 7, pos |-> 1]

\* the (r, g, b) channels of the colour of track tid, each scaled to 0..255
ChannelsOf(tid) ==
    LET rgb == hsv_to_rgb(RandomAt(Seeded(tid)))
    IN [red |-> Scale255(rgb[1]), green |-> Scale255(rgb[2]),
        blue |-> Scale255(rgb[3])]

\* C25 as claimed: the triple returned by id_to_color is in (red, green,
\* blue) order: its first component is the red channel of the HSV(h, 0.9,
\* 0.95) conversion and its last component the blue channel, each scaled to
\* 0..255.
C25_RGBOrder ==
    \A i \in 1..Len(log) :
        /\ log[i].out[1] = ChannelsOf(log[i].idx).red
        /\ log[i].out[3] = ChannelsOf(log[i].idx).blue

\* C25 as the code has it: the triple returned by id_to_color is in (blue,
\* green, red) order: its first component is the blue channel of the
\* HSV(h, 0.9, 0.95) conversion, its second the green and its last the red
\* channel, each scaled to 0..255.
C25_BGROrder ==
    \A i \in 1..Len(log) :
        /\ log[i].out = <<ChannelsOf(log[i].idx).blue,
                          ChannelsOf(log[i].idx).green,
                          ChannelsOf(log[i].idx).red>>
        /\ \A c \in 1..3 : log[i].out[c] \in 0..255

\* id 9 has hue 0, pure red at saturation 0.9: the triple returned for it
\* is (24, 24, 242), the red channel last
C25_Witness ==
    /\ Len(log) >= 1 /\ log[Len(log)].idx = 9
    /\ RandomAt(Seeded(9)) = 0
    /\ log[Len(log)].out = <<24, 24, 242>>

-----------------------------------------------------------------------------
(* Claims about the fps value *)

\* C23: the fps value starts at 0.0 and is updated once per frame: with a
\* wall-clock delta dt > 0 it becomes 0.8 * fps + 0.2 * (1 / dt), with
\* dt <= 0 it is left unchanged, and it is never negative; fps = 10 and
\* dt = 0.1 give 10, fps = 0 and dt = 1 give 0.2.
C23_FpsEma ==
    /\ [](fps.n = 0 => fps.value = <<0, 1>>)
    /\ [](fps.value[2] > 0 /\ fps.value[1] >= 0)
    /\ [][ LET a == fps.value[1]
               b == fps.value[2]
               a1 == fps'.value[1]
               b1 == fps'.value[2]
               p == fps'.dt[1]
               q == fps'.dt[2]
           IN /\ fps'.n = fps.n + 1
              /\ p > 0 => 5 * p * a1 * b = 4 * p * a * b1 + q * b * b1
              /\ p <= 0 => fps'.value = fps.value ]_vars
    /\ [](FpsUpdate(<<10, 1>>, <<1, 10>>) = <<10, 1>>)
    /\ [](FpsUpdate(<<0, 1>>, <<1, 1>>) = <<1, 5>>)

\* three frames: the first after 1 s gives 0.2, the second after 0.1 s
\* gives 0.8 * 0.2 + 0.2 * 10 = 2.16, the third with dt = 0 leaves 2.16
C23_Witness ==
    /\ fps.n = 3 /\ fps.dt = <<0, 1>> /\ fps.value = <<54, 25>>

-----------------------------------------------------------------------------
(* Claims about pause, resume and stop *)

\* C27: if stop() is called while the worker is suspended in the pause wait,
\* the worker wakes and leaves the loop without decoding or annotating any
\* further frame.
C27_StopWhilePaused ==
    [][ (woke = "stop" /\ run' = run) =>
          /\ wpc = "woken" => wpc' \in {"woken", "release"}
          /\ cur' = cur /\ calls' = calls /\ inflight' = inflight ]_vars

\* C29: under fair scheduling of the worker thread, once stop() has been
\* called the worker eventually leaves the loop and emits finished, whether
\* it was running or suspended in the pause wait, and whatever pause() and
\* resume() calls follow; a thread waits in the pause wait only with the
\* pause flag set, so stop() always wakes it.
C29_StopTerminates ==
    /\ [](wpc = "waiting" => paused)
    /\ (stopped /\ wpc # "none") ~> (wpc = "finished" /\ emitted.finished = 1)

\* stop() found the worker in the pause wait or on its way out of it, so one
\* more frame was decoded; pause() was called again afterwards, and the
\* thread has finished all the same
C29_Witness ==
    /\ stopped /\ paused /\ late = 1
    /\ ended = "stopped" /\ wpc = "finished" /\ emitted.finished = 1

\* C28: whenever the worker leaves its per-frame pause check and goes on to
\* decode a frame, the pause flag is false at the moment the worker releases
\* the mutex.
C28_UnpausedAtUnlock ==
    [][ (wpc \in {"check", "woken"} /\ wpc' = "read") => ~paused ]_vars

\* C30: every run emits finished exactly once and as its last event, on each
\* exit path (the capture is not open or the stream ends, stop, exception):
\* once the loop is left or an exception is raised, finished follows; it is
\* emitted by the finally clause alone, and no frame_ready, stats_ready,
\* progress or log event of the run comes after it.
C30_FinishedLast ==
    /\ [](emitted.finished = (IF wpc = "finished" THEN 1 ELSE 0))
    /\ [][ (emitted'.finished # emitted.finished /\ run' = run) =>
              wpc = "finally" /\ wpc' = "finished" ]_vars
    /\ [][ (emitted.finished = 1 /\ run' = run) =>
              emitted' = emitted /\ wpc' = "finished" ]_vars
    /\ (ended # "none" \/ raised # "none") ~> (emitted.finished = 1)

\* annotate_frame raised on the second frame: the events of the first frame
\* (with its log line) and the error log came before finished, the success
\* logs never came
C30_Witness ==
    /\ raised = "annotate" /\ cur.n = 2 /\ wpc = "finished"
    /\ emitted = [NoSignals EXCEPT !.stats_ready = 1, !.frame_ready = 1,
                                   !.progress = 1, !.info = 1,
                                   !.error = 1, !.finished = 1]

-----------------------------------------------------------------------------
(* Claims about the rendered trail *)

\* a < b for fractions <<num, den>> with positive denominators
FracLess(a, b) == a[1] * b[2] < b[1] * a[2]

\* C24: for a rendered trail of m >= 2 points draw_history draws exactly
\* m - 1 segments between consecutive points, oldest to newest, with
\* brightness factors that strictly increase, the newest segment at full
\* brightness (factor exactly 1); a track with fewer than 2 points is not
\* drawn.
C24_FadingTrail ==
    trail.pc = "drawn" =>
        LET m == Len(trail.pts)
            segs == trail.segs
        IN /\ m < 2 => segs = <<>>
           /\ m >= 2 =>
                 /\ Len(segs) = m - 1
                 /\ \A i \in 1..(m - 1) :
                       /\ ~trail.smooth =>
                             /\ segs[i].p1 = trail.pts[i]
                             /\ segs[i].p2 = trail.pts[i + 1]
                       /\ i < m - 1 =>
                             /\ segs[i].p2 = segs[i + 1].p1
                             /\ FracLess(segs[i].alpha, segs[i + 1].alpha)
                       /\ FracLess(<<0, 1>>, segs[i].alpha)
                 /\ segs[m - 1].alpha[1] = segs[m - 1].alpha[2]

\* a trail of four points, not smoothed: three segments with the factors
\* 1/3, 2/3 and 3/3
C24_Witness ==
    /\ trail.pc = "drawn" /\ ~trail.smooth /\ Len(trail.pts) = 4
    /\ trail.pts[1] # trail.pts[2]
    /\ [i \in 1..3 |-> trail.segs[i].alpha] = << <<1, 3>>, <<2, 3>>, <<3, 3>> >>

-----------------------------------------------------------------------------
(* Claims about the buttons of the window *)

\* a thread has been started and its finished event has not been handled
Busy == run > 0 /\ ~gui.handled

\* the buttons as the claim describes them
ButtonsFollowBusy ==
    /\ gui.start_btn = ~Busy
    /\ gui.pause_btn = Busy
    /\ gui.stop_btn = Busy

\* C31 as stated: from a click on Start until the worker's finished event
\* is handled, Start is disabled and Pause and Stop are enabled, afterwards
\* Start is enabled and Pause and Stop are disabled; hence at most one
\* DetectionThread is running at any time, and pause, resume and stop are
\* only ever sent to a thread that is running.
C31_OnlyToRunning ==
    /\ ButtonsFollowBusy
    /\ ~gui.overlap
    /\ gui.sent \notin {"none", "finished"}

\* C31 as the code has it: the buttons follow the claim and no thread is
\* started before the one before it has emitted finished; pause, resume and
\* stop go to the thread started last, from its start until its finished
\* event is handled, which includes the time after it has emitted finished.
C31_ButtonStates ==
    /\ [](ButtonsFollowBusy)
    /\ [](~gui.overlap)
    /\ [][ run' # run => wpc \in {"none", "finished"} /\ gui.start_btn ]_vars
    /\ [][ (OnPause \/ OnStop) => Busy /\ wpc # "none" ]_vars
    /\ [](gui.sent = "finished" => run > 0 /\ wpc = "finished")

\* the second thread has emitted finished, _on_finish has not run yet, and
\* a click on Stop has called stop() on the thread that is over
C31_Witness ==
    /\ run = 2 /\ wpc = "finished" /\ emitted.finished = 1
    /\ ~gui.handled /\ gui.sent = "finished" /\ stopped
    /\ ~gui.start_btn /\ gui.pause_btn /\ gui.stop_btn

====
